---------------------------- MODULE Spec2Model ----------------------------
(***************************************************************************)
(* A model of batchgenerators/augmentations/utils.py: the coordinate mesh  *)
(* builder, recentering, scaling and rotation of coordinate fields, the    *)
(* one-hot encoder, the label-safe segmentation resizer, the bounding-box  *)
(* extractor, and the crop / pad helpers' dimensionality checks.           *)
(*                                                                         *)
(* The functions are pure, so a state is one call: the function called     *)
(* (fn), its arguments as the caller holds them (args), the values drawn   *)
(* from the ambient random source and the values the external backends     *)
(* returned (env), what was printed (stdout), and the outcome (ret).       *)
(* Where a claim is about which array object a function writes to, the    *)
(* arrays live in a memory (heap, a sequence of arrays indexed by         *)
(* address), args and ret hold addresses, and the function is taken line  *)
(* by line; everywhere else heap stays empty and arrays are values.       *)
(*                                                                         *)
(* Conventions.                                                            *)
(*  - An n-d array is [shape |-> <<s1,...,sn>>, data |-> f] with f a       *)
(*    function on Indices(shape), the 0-based index tuples.                *)
(*  - Every outcome is a record with a field "raised": "" for a normal     *)
(*    return, otherwise the name of the exception that ended the call.     *)
(*  - Floating-point coordinates are held in fixed point with unit 1/2     *)
(*    (the value v is stored as 2v): every value the modelled inputs       *)
(*    produce is a multiple of 1/2 and is exact in binary floating point.  *)
(*  - Angles are whole quarter turns: k stands for k * pi / 2.             *)
(***************************************************************************)
EXTENDS Integers, Sequences, FiniteSets, TLC

VARIABLES pc, fn, args, env, stdout, ret, heap

vars == <<pc, fn, args, env, stdout, ret, heap>>

-----------------------------------------------------------------------------
(* Bounds of the model. *)

\* largest extent of one axis of a spatial shape given to the mesh builder
MaxExtent == 4
\* largest scale factor given to scale_coords
MaxScale == 2
\* largest extent of one axis of a field given to rotate_coords_3d
MaxRotExtent == 2
\* largest angle, in quarter turns, given to rotate_coords_3d
MaxQuarter == 3
\* largest length of a (one-axis) label map
MaxSegLen == 2
\* largest length of the target shape of a resize
MaxNewLen == 2
\* largest length of an explicit class list
MaxClasses == 3
\* largest n_max_gt given to the bounding-box extractor
MaxGt == 2
\* largest class label of a sample
MaxClassTarget == 1
\* largest number of axes of an image given to the crop and pad helpers
MaxRank == 5
\* largest length of a crop_size / new_shape / coordinate-field list
MaxListLen == 4

-----------------------------------------------------------------------------
(* Arrays. *)

RECURSIVE Indices(_)
Indices(shape) ==
    IF shape = <<>> THEN {<<>>}
    ELSE {<<i>> \o r : i \in 0..(shape[1] - 1), r \in Indices(Tail(shape))}

RECURSIVE SumOver(_, _)
SumOver(f, S) ==
    IF S = {} THEN 0
    ELSE LET x == CHOOSE y \in S : TRUE
         IN f[x] + SumOver(f, S \ {x})

\* the sum of the elements a[prefix, ...] of an array with data f, where
\* `shape` holds the extents of the axes after the prefix
RECURSIVE SumArray(_, _, _)
SumArray(f, prefix, shape) ==
    IF shape = <<>> THEN f[prefix]
    ELSE SumOver([i \in 0..(shape[1] - 1) |->
                     SumArray(f, prefix \o <<i>>, Tail(shape))],
                 0..(shape[1] - 1))

Max(a, b) == IF a >= b THEN a ELSE b
Min(a, b) == IF a <= b THEN a ELSE b

\* no exception: the call returned `value`
Returned(value) == [raised |-> "", value |-> value]
\* the call ended in the exception `name`
Raised(name) == [raised |-> name]

NoValue == [raised |-> "", value |-> <<>>]

-----------------------------------------------------------------------------
(* Fixed point, unit 1/2. *)

\* astype(float) of an integer
ToFloat(n) == 2 * n
\* x / 2. for a fixed-point x
HalfOf(x) == x \div 2

-----------------------------------------------------------------------------
(* create_zero_centered_coordinate_mesh *)

\* np.array(np.meshgrid(*[np.arange(i) for i in shape], indexing='ij')):
\* element [d, i0, i1, ...] is i_d
meshgrid_ij(shape) ==
    LET full == <<Len(shape)>> \o shape
    IN [shape |-> full,
        data  |-> [ix \in Indices(full) |-> ix[ix[1] + 2]]]

\* ((np.array(shape).astype(float) - 1) / 2.)[d], d 0-based
CenterOffsetWrong(shape, d) == HalfOf(ToFloat(shape[d + 1]))
CenterOffset(shape, d) == HalfOf(ToFloat(shape[d + 1]) - ToFloat(1))

create_zero_centered_coordinate_mesh(shape) ==
    LET grid == meshgrid_ij(shape)
    IN [shape |-> grid.shape,
        data  |-> [ix \in DOMAIN grid.data |->
                      ToFloat(grid.data[ix]) - CenterOffset(shape, ix[1])]]

-----------------------------------------------------------------------------
(* uncenter_coords *)

\* (shp[d] - 1) / 2. with shp = coords.shape[1:], d 0-based
UncenterOffsetWrong(coords, d) == HalfOf(ToFloat(Tail(coords.shape)[d + 1]))
UncenterOffset(coords, d) == HalfOf(ToFloat(Tail(coords.shape)[d + 1] - 1))

\* works on deepcopy(coords): the argument is left as it is
uncenter_coords(coords) ==
    [shape |-> coords.shape,
     data  |-> [ix \in DOMAIN coords.data |->
                   coords.data[ix] + UncenterOffset(coords, ix[1])]]

-----------------------------------------------------------------------------
(* scale_coords: coords * scale, numpy's elementwise product with          *)
(* broadcasting.  A scalar scale has shape <<>>; a sequence of length L    *)
(* has shape <<L>>.                                                        *)

\* shapes are aligned at their last axis; a missing axis counts as 1
PadShape(shape, n) == [k \in 1..n |->
    IF k <= n - Len(shape) THEN 1 ELSE shape[k - (n - Len(shape))]]

BroadcastOk(sa, sb) ==
    LET n == Max(Len(sa), Len(sb))
        a == PadShape(sa, n)
        b == PadShape(sb, n)
    IN \A k \in 1..n : a[k] = b[k] \/ a[k] = 1 \/ b[k] = 1

BroadcastShape(sa, sb) ==
    LET n == Max(Len(sa), Len(sb))
        a == PadShape(sa, n)
        b == PadShape(sb, n)
    IN [k \in 1..n |-> Max(a[k], b[k])]

\* the index into an operand of shape `shape` for the result index ix
BroadcastIndex(shape, ix) ==
    LET off == Len(ix) - Len(shape)
    IN [k \in 1..Len(shape) |-> IF shape[k] = 1 THEN 0 ELSE ix[k + off]]

\* a scale argument as an array: a number, or a list/tuple of numbers
ScaleArray(scale) ==
    IF scale.kind = "scalar"
    THEN [shape |-> <<>>, data |-> [ix \in {<<>>} |-> scale.v]]
    ELSE [shape |-> <<Len(scale.v)>>,
          data  |-> [ix \in Indices(<<Len(scale.v)>>) |-> scale.v[ix[1] + 1]]]

Multiply(a, b) ==
    IF ~BroadcastOk(a.shape, b.shape) THEN Raised("ValueError")
    ELSE LET shp == BroadcastShape(a.shape, b.shape)
         IN Returned([shape |-> shp,
                      data  |-> [ix \in Indices(shp) |->
                                    a.data[BroadcastIndex(a.shape, ix)]
                                    * b.data[BroadcastIndex(b.shape, ix)]]])

scale_coords(coords, scale) == Multiply(coords, ScaleArray(scale))

-----------------------------------------------------------------------------
(* The coordinate pipeline: build a mesh, then recenter it or scale it. *)

\* Spatial Shapes: length 2 or 3, positive extents
SpatialShapes ==
    {<<a, b>> : a \in 1..MaxExtent, b \in 1..MaxExtent}
    \cup {<<a, b, c>> : a \in 1..MaxExtent, b \in 1..MaxExtent, c \in 1..MaxExtent}

\* scale arguments: a number, or one value per axis of an n-axis field
ScaleArgs(n) ==
    {[kind |-> "scalar", v |-> s] : s \in 1..MaxScale}
    \cup {[kind |-> "seq", v |-> q] : q \in [1..n -> 1..MaxScale]}

InitMesh ==
    /\ pc = "call"
    /\ fn = "create_zero_centered_coordinate_mesh"
    /\ args \in {[shape |-> s] : s \in SpatialShapes}
    /\ env = <<>>
    /\ stdout = <<>>
    /\ heap = <<>>
    /\ ret = NoValue

MeshBuilder ==
    /\ pc = "call"
    /\ fn = "create_zero_centered_coordinate_mesh"
    /\ ret' = Returned(create_zero_centered_coordinate_mesh(args.shape))
    /\ pc' = "return"
    /\ UNCHANGED <<fn, args, env, stdout, heap>>

\* the mesh just built is passed on to uncenter_coords
Recenter ==
    /\ pc = "return"
    /\ fn = "create_zero_centered_coordinate_mesh"
    /\ fn' = "uncenter_coords"
    /\ args' = [coords |-> ret.value]
    /\ ret' = Returned(uncenter_coords(ret.value))
    /\ UNCHANGED <<pc, env, stdout, heap>>

\* the mesh just built is passed on to scale_coords
Scale ==
    /\ pc = "return"
    /\ fn = "create_zero_centered_coordinate_mesh"
    /\ \E scale \in ScaleArgs(ret.value.shape[1]) :
          /\ fn' = "scale_coords"
          /\ args' = [coords |-> ret.value, scale |-> scale]
          /\ ret' = scale_coords(ret.value, scale)
    /\ UNCHANGED <<pc, env, stdout, heap>>

NextMesh == MeshBuilder \/ Recenter \/ Scale

SpecMesh == InitMesh /\ [][NextMesh]_vars

-----------------------------------------------------------------------------
(* C1: for every spatial shape of length 2 or 3 with positive extents the  *)
(* mesh builder returns a field of shape [N, *shape] whose element         *)
(* [d, i0, i1, ...] is i_d - (shape[d]-1)/2 (here doubled: 2 i_d -         *)
(* (shape[d]-1)), so each axis's coordinates sum to zero, and for shape    *)
(* (4,4) axis 0 is -1.5 at (0,0) and 1.5 at (3,3).                         *)

MeshReturned == pc = "return" /\ fn = "create_zero_centered_coordinate_mesh"

C1_MeshCentered ==
    MeshReturned =>
        LET shape == args.shape
            N     == Len(shape)
            out   == ret.value
        IN /\ ret.raised = ""
           /\ out.shape = <<N>> \o shape
           /\ DOMAIN out.data = Indices(<<N>> \o shape)
           /\ \A ix \in DOMAIN out.data :
                 out.data[ix] = 2 * ix[ix[1] + 2] - (shape[ix[1] + 1] - 1)
           /\ \A d \in 0..(N - 1) :
                 SumArray(out.data, <<d>>, shape) = 0
           /\ shape = <<4, 4>> =>
                 /\ out.data[<<0, 0, 0>>] = -3
                 /\ out.data[<<0, 3, 3>>] = 3

\* the (4,4) scenario has been built: an even extent, centred on a half
C1_Witness ==
    /\ MeshReturned
    /\ args.shape = <<4, 4>>
    /\ ret.value.data[<<0, 0, 0>>] = -3
    /\ ret.value.data[<<0, 3, 3>>] = 3

(* C2: uncenter_coords applied to the mesh builder's output is the         *)
(* absolute-index mesh: element [d, i0, i1, ...] is i_d.                   *)

C2_RecenterInverse ==
    (pc = "return" /\ fn = "uncenter_coords") =>
        /\ ret.raised = ""
        /\ ret.value.shape = args.coords.shape
        /\ \A ix \in DOMAIN ret.value.data :
              ret.value.data[ix] = ToFloat(ix[ix[1] + 2])

\* a mesh with an even and an odd extent has been recentered
C2_Witness ==
    /\ pc = "return" /\ fn = "uncenter_coords"
    /\ args.coords.shape = <<2, 4, 3>>
    /\ args.coords.data[<<0, 0, 0>>] = -3
    /\ ret.value.data[<<0, 3, 2>>] = ToFloat(3)
    /\ ret.value.data[<<1, 3, 2>>] = ToFloat(2)

(* C9: scale_coords multiplies every element by a single number, and with *)
(* one value per axis (a sequence of length N for a field of shape         *)
(* [N, *spatial_shape]) element [d, i0, i1, ...] of the result is          *)
(* coords[d, i0, i1, ...] * scale[d].                                      *)

ScaleReturned == pc = "return" /\ fn = "scale_coords"

C9_ScaleBroadcast ==
    ScaleReturned =>
        /\ ret.raised = ""
        /\ ret.value.shape = args.coords.shape
        /\ \A ix \in DOMAIN args.coords.data :
              ret.value.data[ix] =
                  args.coords.data[ix]
                  * (IF args.scale.kind = "scalar" THEN args.scale.v
                     ELSE args.scale.v[ix[1] + 1])

\* the scalar half of C9 alone
ScalarScaleMultipliesAll ==
    (ScaleReturned /\ args.scale.kind = "scalar") =>
        /\ ret.raised = ""
        /\ ret.value.shape = args.coords.shape
        /\ \A ix \in DOMAIN args.coords.data :
              ret.value.data[ix] = args.coords.data[ix] * args.scale.v

-----------------------------------------------------------------------------
(* Rotation matrices.  A matrix is a tuple of rows; None is <<>>. *)

None == <<>>

\* np.cos, np.sin at k quarter turns
Cos(k) == <<1, 0, -1, 0>>[(k % 4) + 1]
Sin(k) == <<0, 1, 0, -1>>[(k % 4) + 1]

\* np.dot of two matrices
Dot(A, B) ==
    [i \in 1..Len(A) |->
        [j \in 1..Len(B[1]) |->
            SumOver([k \in 1..Len(B) |-> A[i][k] * B[k][j]], 1..Len(B))]]

\* np.identity(n)
Identity(n) == [i \in 1..n |-> [j \in 1..n |-> IF i = j THEN 1 ELSE 0]]

create_matrix_rotation_x_3d(angle, matrix) ==
    LET rotation_x == << <<1, 0, 0>>,
                         <<0, Cos(angle), -Sin(angle)>>,
                         <<0, Sin(angle), Cos(angle)>> >>
    IN IF matrix = None THEN rotation_x ELSE Dot(matrix, rotation_x)

create_matrix_rotation_y_3d(angle, matrix) ==
    LET rotation_y == << <<Cos(angle), 0, Sin(angle)>>,
                         <<0, 1, 0>>,
                         <<-Sin(angle), 0, Cos(angle)>> >>
    IN IF matrix = None THEN rotation_y ELSE Dot(matrix, rotation_y)

create_matrix_rotation_z_3d(angle, matrix) ==
    LET rotation_z == << <<Cos(angle), -Sin(angle), 0>>,
                         <<Sin(angle), Cos(angle), 0>>,
                         <<0, 0, 1>> >>
    IN IF matrix = None THEN rotation_z ELSE Dot(matrix, rotation_z)

\* np.dot(coords.reshape(len(coords), -1).transpose(), m).transpose()
\*   .reshape(coords.shape): the point at each location, as a row, times m
DotPoints(coords, m) ==
    [shape |-> coords.shape,
     data  |-> [ix \in DOMAIN coords.data |->
                   SumOver([k \in 1..Len(m) |->
                               coords.data[<<k - 1>> \o Tail(ix)] * m[k][ix[1] + 1]],
                           1..Len(m))]]

\* the rot_matrix rotate_coords_3d builds before it applies it
rot_matrix_3d(n, angle_x, angle_y, angle_z) ==
    create_matrix_rotation_z_3d(angle_z,
        create_matrix_rotation_y_3d(angle_y,
            create_matrix_rotation_x_3d(angle_x, Identity(n))))

rotate_coords_3d(coords, angle_x, angle_y, angle_z) ==
    DotPoints(coords, rot_matrix_3d(coords.shape[1], angle_x, angle_y, angle_z))

\* the three draws are made in the order x, y, z (arguments are evaluated
\* left to right); the matrices are nested z innermost
create_random_rotation(draw_x, draw_y, draw_z) ==
    create_matrix_rotation_x_3d(draw_x,
        create_matrix_rotation_y_3d(draw_y,
            create_matrix_rotation_z_3d(draw_z, None)))

\* np.random.uniform(low, high) over whole quarter turns: low <= k < high
Uniform(range) == range[1]..(range[2] - 1)

RotShapes ==
    {<<a, b, c>> : a \in 1..MaxRotExtent, b \in 1..MaxRotExtent, c \in 1..MaxRotExtent}

\* (0, 2 * np.pi), the default, and a narrower range
AngleRanges == {<<0, 4>>, <<1, 3>>}

InitRot ==
    /\ pc = "call"
    /\ \/ /\ fn = "rotate_coords_3d"
          /\ args \in {[coords |-> create_zero_centered_coordinate_mesh(s),
                        angle_x |-> ax, angle_y |-> ay, angle_z |-> az] :
                          s \in RotShapes, ax \in 0..MaxQuarter,
                          ay \in 0..MaxQuarter, az \in 0..MaxQuarter}
       \/ /\ fn = "create_random_rotation"
          /\ args \in {[angle_x |-> rx, angle_y |-> ry, angle_z |-> rz] :
                          rx \in AngleRanges, ry \in AngleRanges, rz \in AngleRanges}
    /\ env = <<>>
    /\ stdout = <<>>
    /\ heap = <<>>
    /\ ret = NoValue

RotateCoords3d ==
    /\ pc = "call"
    /\ fn = "rotate_coords_3d"
    /\ ret' = Returned(rotate_coords_3d(args.coords, args.angle_x,
                                        args.angle_y, args.angle_z))
    /\ pc' = "return"
    /\ UNCHANGED <<fn, args, env, stdout, heap>>

RandomRotation ==
    /\ pc = "call"
    /\ fn = "create_random_rotation"
    /\ \E dx \in Uniform(args.angle_x), dy \in Uniform(args.angle_y),
          dz \in Uniform(args.angle_z) :
          /\ env' = <<dx, dy, dz>>
          /\ ret' = Returned(create_random_rotation(dx, dy, dz))
    /\ pc' = "return"
    /\ UNCHANGED <<fn, args, stdout, heap>>

NextRot == RotateCoords3d \/ RandomRotation

SpecRot == InitRot /\ [][NextRot]_vars

(* C8: 3D rotations are composed in the fixed order x then y then z: the   *)
(* matrix rotate_coords_3d applies is Rx(ax).Ry(ay).Rz(az), and the matrix *)
(* create_random_rotation returns for the draws ax, ay, az is that same    *)
(* composed matrix.                                                        *)

Rx(a) == create_matrix_rotation_x_3d(a, None)
Ry(a) == create_matrix_rotation_y_3d(a, None)
Rz(a) == create_matrix_rotation_z_3d(a, None)
RxRyRz(ax, ay, az) == Dot(Dot(Rx(ax), Ry(ay)), Rz(az))

\* the rotate_coords_3d half of C8
RotateCoordsAppliesXYZ ==
    (pc = "return" /\ fn = "rotate_coords_3d") =>
        /\ ret.raised = ""
        /\ rot_matrix_3d(3, args.angle_x, args.angle_y, args.angle_z)
              = RxRyRz(args.angle_x, args.angle_y, args.angle_z)
        /\ ret.value = DotPoints(args.coords,
                           RxRyRz(args.angle_x, args.angle_y, args.angle_z))

C8_RotationOrderXYZ ==
    /\ RotateCoordsAppliesXYZ
    /\ (pc = "return" /\ fn = "create_random_rotation") =>
          /\ ret.raised = ""
          /\ ret.value = RxRyRz(env[1], env[2], env[3])

\* what create_random_rotation returns instead: the order z, y, x
RandomRotationIsZYX ==
    (pc = "return" /\ fn = "create_random_rotation") =>
        ret.value = Dot(Dot(Rz(env[3]), Ry(env[2])), Rx(env[1]))

-----------------------------------------------------------------------------
(* Label maps, one-hot stacks and the label-safe resizer. *)

Range(f) == {f[x] : x \in DOMAIN f}

RECURSIVE SortedSeq(_)
SortedSeq(S) ==
    IF S = {} THEN <<>>
    ELSE LET m == CHOOSE x \in S : \A y \in S : x <= y
         IN <<m>> \o SortedSeq(S \ {m})

\* np.unique(a): the distinct values, ascending
np_unique(a) == SortedSeq(Range(a.data))

\* image == c for one-hot channel i
ChannelMaskWrong(image, c, ix) == IF image.data[ix] >= c THEN 1 ELSE 0
ChannelMask(image, c, ix) == IF image.data[ix] = c THEN 1 ELSE 0

convert_seg_image_to_one_hot_encoding(image, classes) ==
    LET cls == IF classes = None THEN np_unique(image) ELSE classes
        shp == <<Len(cls)>> \o image.shape
    IN [shape |-> shp,
        data  |-> [ix \in Indices(shp) |->
                      ChannelMask(image, cls[ix[1] + 1], Tail(ix))]]

\* np.argmax(stack, 0): at each location the first channel holding the maximum
FirstMaxChannelWrong(stack, ix) ==
    CHOOSE i \in 0..(stack.shape[1] - 1) :
        /\ \A j \in 0..(stack.shape[1] - 1) :
              stack.data[<<i>> \o ix] >= stack.data[<<j>> \o ix]
        /\ \A j \in (i + 1)..(stack.shape[1] - 1) :
              stack.data[<<j>> \o ix] < stack.data[<<i>> \o ix]
FirstMaxChannel(stack, ix) ==
    CHOOSE i \in 0..(stack.shape[1] - 1) :
        /\ \A j \in 0..(stack.shape[1] - 1) :
              stack.data[<<i>> \o ix] >= stack.data[<<j>> \o ix]
        /\ \A j \in 0..(i - 1) :
              stack.data[<<j>> \o ix] < stack.data[<<i>> \o ix]

argmax0(stack) ==
    [shape |-> Tail(stack.shape),
     data  |-> [ix \in Indices(Tail(stack.shape)) |-> FirstMaxChannel(stack, ix)]]

\* labels[index_array]: look every index up in the sequence of labels
Lookup(labels, index_array) ==
    [shape |-> index_array.shape,
     data  |-> [ix \in DOMAIN index_array.data |->
                   labels[index_array.data[ix] + 1]]]

\* np.round of a fixed-point value (unit 1/2): halves go to the even integer
np_round(x) ==
    IF x % 2 = 0 THEN x \div 2
    ELSE LET below == (x - 1) \div 2
         IN IF below % 2 = 0 THEN below ELSE below + 1

\* the per-class indicator maps after np.round, stacked
RoundedMultihot(unique_labels, new_shape, resized) ==
    LET shp == <<Len(unique_labels)>> \o new_shape
    IN [shape |-> shp,
        data  |-> [ix \in Indices(shp) |->
                      np_round(resized[ix[1] + 1].data[Tail(ix)])]]

\* `resized` is what skimage's resize returned: for order 0 one array, the
\* resized label map; otherwise one real-valued array per distinct label
resize_segmentation(segmentation, new_shape, order, resized) ==
    LET unique_labels == np_unique(segmentation)
    IN IF Len(segmentation.shape) # Len(new_shape) THEN Raised("AssertionError")
       ELSE IF order = 0 THEN Returned(resized[1])
       ELSE Returned(Lookup(unique_labels,
                argmax0(RoundedMultihot(unique_labels, new_shape, resized))))

(* skimage.transform.resize(image, new_shape, order, mode="constant",      *)
(* cval=0, clip=True), an external backend.  Output index i of an axis     *)
(* that goes from n_in to n_out samples the image at                       *)
(* (i + 1/2) * n_in / n_out - 1/2.  With order 0 the output value is the   *)
(* image's value at the nearest index; where the sampling position lies    *)
(* outside [0, n_in - 1] the constant mode may give the fill value cval    *)
(* instead (it does when the position is tested before it is rounded).     *)
(* With order > 0 and a 0/1 indicator image the output is real-valued and  *)
(* clipped to [0, 1]: here 0, 1/2 or 1.                                    *)

cval == 0

ArraysOver(shape, values) ==
    {[shape |-> shape, data |-> d] : d \in [Indices(shape) -> values]}

\* floor((i + 1/2) * n_in / n_out): the index nearest to the sampling position
Nearest(i, n_in, n_out) == ((2 * i + 1) * n_in) \div (2 * n_out)

\* the sampling position is below 0 or above n_in - 1
Outside(i, n_in, n_out) ==
    \/ (2 * i + 1) * n_in < n_out
    \/ (2 * i + 1) * n_in - n_out > 2 * n_out * (n_in - 1)

\* nearest-neighbour sampling of image onto new_shape
Replicated(image, new_shape) ==
    [shape |-> new_shape,
     data  |-> [ix \in Indices(new_shape) |->
                   image.data[[k \in 1..Len(ix) |->
                                  Nearest(ix[k], image.shape[k], new_shape[k])]]]]

\* the same with the samples outside the image filled with cval
ReplicatedFilled(image, new_shape) ==
    [shape |-> new_shape,
     data  |-> [ix \in Indices(new_shape) |->
                   IF \E k \in 1..Len(ix) :
                         Outside(ix[k], image.shape[k], new_shape[k])
                   THEN cval
                   ELSE Replicated(image, new_shape).data[ix]]]

Constant(shape, v) == [shape |-> shape, data |-> [ix \in Indices(shape) |-> v]]

Indicator(image, c) ==
    [shape |-> image.shape,
     data  |-> [ix \in DOMAIN image.data |-> ToFloat(ChannelMask(image, c, ix))]]

\* the label map of the resize scenario
ScenarioSeg ==
    [shape |-> <<3, 3>>,
     data  |-> [ix \in Indices(<<3, 3>>) |-> IF ix[1] + ix[2] >= 2 THEN 1 ELSE 0]]

ResizeOrder0(image, new_shape) ==
    {Replicated(image, new_shape), ReplicatedFilled(image, new_shape)}

\* every outcome for a one-axis output; for a two-axis output (the
\* scenario's 6 x 6) a family of outcomes
ResizeIndicator(indicator, new_shape) ==
    IF Len(new_shape) = 2
    THEN {Replicated(indicator, new_shape), ReplicatedFilled(indicator, new_shape),
          Constant(new_shape, 0), Constant(new_shape, 1), Constant(new_shape, 2)}
    ELSE ArraysOver(new_shape, {0, 1, 2})

\* the sequences <<x1, ..., xn>> with xi in sets[i]
RECURSIVE Product(_)
Product(sets) ==
    IF sets = <<>> THEN {<<>>}
    ELSE {<<x>> \o r : x \in sets[1], r \in Product(Tail(sets))}

\* what the calls of resize inside resize_segmentation can return
ResizeBackend(segmentation, new_shape, order) ==
    IF Len(segmentation.shape) # Len(new_shape) THEN {<<>>}
    ELSE IF order = 0 THEN {<<a>> : a \in ResizeOrder0(segmentation, new_shape)}
    ELSE LET unique_labels == np_unique(segmentation)
         IN Product([i \in 1..Len(unique_labels) |->
                ResizeIndicator(Indicator(segmentation, unique_labels[i]), new_shape)])

Labels == {0, 1, 2}

\* integer label maps: every one-axis map up to MaxSegLen, and the scenario
LabelMaps ==
    UNION {ArraysOver(<<n>>, Labels) : n \in 1..MaxSegLen} \cup {ScenarioSeg}

\* explicit ordered class lists (covering or not, with or without repeats)
ClassLists == UNION {[1..n -> Labels] : n \in 1..MaxClasses}

NewShapes(segmentation) ==
    IF segmentation = ScenarioSeg THEN {<<6, 6>>, <<6>>}
    ELSE {<<n>> : n \in 1..MaxNewLen} \cup {<<1, 1>>}

InitSeg ==
    /\ pc = "call"
    /\ \/ /\ fn = "convert_seg_image_to_one_hot_encoding"
          /\ args \in {[image |-> m, classes |-> c] :
                          m \in LabelMaps, c \in ClassLists \cup {None}}
       \/ /\ fn = "resize_segmentation"
          /\ \E m \in LabelMaps :
                args \in {[segmentation |-> m, new_shape |-> s, order |-> o] :
                             s \in NewShapes(m), o \in {0, 1, 3}}
    /\ env = <<>>
    /\ stdout = <<>>
    /\ heap = <<>>
    /\ ret = NoValue

OneHot ==
    /\ pc = "call"
    /\ fn = "convert_seg_image_to_one_hot_encoding"
    /\ ret' = Returned(convert_seg_image_to_one_hot_encoding(args.image, args.classes))
    /\ pc' = "return"
    /\ UNCHANGED <<fn, args, env, stdout, heap>>

ResizeSegmentation ==
    /\ pc = "call"
    /\ fn = "resize_segmentation"
    /\ \E resized \in ResizeBackend(args.segmentation, args.new_shape, args.order) :
          /\ env' = resized
          /\ ret' = resize_segmentation(args.segmentation, args.new_shape,
                                        args.order, resized)
    /\ pc' = "return"
    /\ UNCHANGED <<fn, args, stdout, heap>>

NextSeg == OneHot \/ ResizeSegmentation

SpecSeg == InitSeg /\ [][NextSeg]_vars

(* C3: for every label map, target shape of the same rank and order (0 and *)
(* above), every value of resize_segmentation's output is one of the       *)
(* distinct values of the input label map, whatever the backend returns.   *)

ResizeReturned == pc = "return" /\ fn = "resize_segmentation" /\ ret.raised = ""

C3_ResizeLabelSafe ==
    ResizeReturned =>
        \A ix \in DOMAIN ret.value.data :
            ret.value.data[ix] \in Range(args.segmentation.data)

\* the order > 0 half of C3
LabelSafeAboveOrder0 ==
    (ResizeReturned /\ args.order > 0) =>
        /\ ret.value.shape = args.new_shape
        /\ \A ix \in DOMAIN ret.value.data :
              ret.value.data[ix] \in Range(args.segmentation.data)

(* C4: for every integer label map and every explicit ordered class list   *)
(* covering the values present (and for the default list, the sorted       *)
(* distinct values), argmax over the channels of the one-hot stack         *)
(* followed by a lookup in the class list gives back the label map.        *)

OneHotReturned == pc = "return" /\ fn = "convert_seg_image_to_one_hot_encoding"

ClassesUsed ==
    IF args.classes = None THEN SortedSeq(Range(args.image.data)) ELSE args.classes

Covering == Range(args.image.data) \subseteq Range(ClassesUsed)

C4_OneHotRoundTrip ==
    (OneHotReturned /\ Covering) =>
        /\ ret.raised = ""
        /\ ret.value.shape = <<Len(ClassesUsed)>> \o args.image.shape
        /\ \A ix \in DOMAIN args.image.data :
              LET hot == {i \in 0..(Len(ClassesUsed) - 1) :
                             \A j \in 0..(Len(ClassesUsed) - 1) :
                                 ret.value.data[<<i>> \o ix] >= ret.value.data[<<j>> \o ix]}
                  first == CHOOSE i \in hot : \A j \in hot : i <= j
              IN ClassesUsed[first + 1] = args.image.data[ix]

\* an unsorted covering class list with a repeat and a class that is absent
C4_Witness ==
    /\ OneHotReturned
    /\ args.classes = <<2, 0, 2>>
    /\ args.image.data = (<<0>> :> 2 @@ <<1>> :> 0)
    /\ ret.value.data[<<0, 0>>] = 1 /\ ret.value.data[<<2, 0>>] = 1
    /\ ret.value.data[<<1, 1>>] = 1 /\ ret.value.data[<<1, 0>>] = 0

-----------------------------------------------------------------------------
(* convert_seg_to_bounding_box_coordinates *)

\* seg[b]
Sample(seg, b) ==
    [shape |-> Tail(seg.shape),
     data  |-> [ix \in Indices(Tail(seg.shape)) |-> seg.data[<<b>> \o ix]]]

\* np.sum(seg != 0) > 0: the check looks at the whole batch tensor
GatePerSample(seg, b) == \E ix \in DOMAIN seg.data : ix[1] = b /\ seg.data[ix] # 0
Gate(seg, b) == \E ix \in DOMAIN seg.data : seg.data[ix] # 0

(* scipy.ndimage.label with its default structure, an external backend:    *)
(* nonzero elements that are neighbours along one axis belong to one       *)
(* component; components are numbered from 1 in the order in which a       *)
(* row-major scan first meets them.                                        *)

Adjacent(p, q) ==
    \E k \in 1..Len(p) :
        /\ p[k] - q[k] \in {1, -1}
        /\ \A j \in 1..Len(p) : j # k => p[j] = q[j]

RECURSIVE Grow(_, _)
Grow(comp, S) ==
    LET more == {q \in S \ comp : \E p \in comp : Adjacent(p, q)}
    IN IF more = {} THEN comp ELSE Grow(comp \cup more, S)

\* p comes before q in a row-major scan
RECURSIVE ScanBefore(_, _)
ScanBefore(p, q) ==
    IF p = <<>> THEN FALSE
    ELSE \/ p[1] < q[1]
         \/ p[1] = q[1] /\ ScanBefore(Tail(p), Tail(q))

FirstInScan(S) == CHOOSE p \in S : \A q \in S \ {p} : ScanBefore(p, q)

RECURSIVE Components(_)
Components(S) ==
    IF S = {} THEN <<>>
    ELSE LET c == Grow({FirstInScan(S)}, S)
         IN <<c>> \o Components(S \ c)

\* clusters, n_cands = lb(sample)
lb(sample) ==
    LET comps == Components({ix \in DOMAIN sample.data : sample.data[ix] # 0})
    IN [clusters |->
            [shape |-> sample.shape,
             data  |-> [ix \in DOMAIN sample.data |->
                           IF \E i \in 1..Len(comps) : ix \in comps[i]
                           THEN CHOOSE i \in 1..Len(comps) : ix \in comps[i]
                           ELSE 0]],
        n_cands |-> Len(comps)]

\* np.array([(clusters == ii) * 1 for ii in range(1, n_cands + 1)])[:n_max_gt]
RoisWrong(sample, n_max_gt) ==
    LET l == lb(sample)
    IN [r \in 1..Min(l.n_cands, n_max_gt) |->
           [shape |-> sample.shape,
            data  |-> [ix \in DOMAIN sample.data |->
                          IF l.clusters.data[ix] = r + (l.n_cands - Min(l.n_cands, n_max_gt))
                          THEN 1 ELSE 0]]]
Rois(sample, n_max_gt) ==
    LET l == lb(sample)
    IN [r \in 1..Min(l.n_cands, n_max_gt) |->
           [shape |-> sample.shape,
            data  |-> [ix \in DOMAIN sample.data |->
                          IF l.clusters.data[ix] = r THEN 1 ELSE 0]]]

\* np.min(seg_ixs[:, k]), np.max(seg_ixs[:, k]) with seg_ixs = np.argwhere(r != 0)
SetMin(S) == CHOOSE x \in S : \A y \in S : x <= y
SetMax(S) == CHOOSE x \in S : \A y \in S : x >= y
ColumnMin(r, k) == SetMin({ix[k + 1] : ix \in {jx \in DOMAIN r.data : r.data[jx] # 0}})
ColumnMax(r, k) == SetMax({ix[k + 1] : ix \in {jx \in DOMAIN r.data : r.data[jx] # 0}})

\* the low bounds are not clamped to the image
LowBoundClamped(r, k) == Max(0, ColumnMin(r, k) - 1)
LowBound(r, k) == ColumnMin(r, k) - 1
HighBound(r, k) == ColumnMax(r, k) + 1

coord_list(r, dim) ==
    <<LowBound(r, 2), LowBound(r, 1), HighBound(r, 2), HighBound(r, 1)>>
    \o (IF dim = 3 THEN <<LowBound(r, 3), HighBound(r, 3)>> ELSE <<>>)

\* the exception one sample's loop body ends in, "" if none
SampleRaises(seg, b, dim, n_max_gt) ==
    LET sample == Sample(seg, b)
        rank   == Len(sample.shape)
    IN IF ~Gate(seg, b) \/ Len(Rois(sample, n_max_gt)) = 0 THEN ""
       \* seg_ixs[:, 2], seg_ixs[:, 3]: the mask has too few axes
       ELSE IF rank < 3 \/ (dim = 3 /\ rank < 4) THEN "IndexError"
       \* roi_masks[b, rix] = r: r has the shape of seg[b], the row that of
       \* seg.shape[2:]; only a leading axis of extent 1 is dropped
       ELSE IF sample.shape[1] # 1 THEN "ValueError"
       ELSE ""

Zeros(shape) == [shape |-> shape, data |-> [ix \in Indices(shape) |-> 0]]

class_id(class_target, b) == class_target[b] + 1

\* the three arrays as they stand when the loop has run over every sample
Targets(seg, class_target, dim, n_max_gt) ==
    LET B    == seg.shape[1]
        rois == [b \in 0..(B - 1) |->
                    IF Gate(seg, b) THEN Rois(Sample(seg, b), n_max_gt) ELSE <<>>]
    IN [bb_target |->
            [b \in 0..(B - 1) |-> [rix \in 0..(n_max_gt - 1) |->
                IF rix < Len(rois[b]) THEN coord_list(rois[b][rix + 1], dim)
                ELSE [k \in 1..(dim * 2) |-> 0]]],
        roi_masks |->
            [b \in 0..(B - 1) |-> [rix \in 0..(n_max_gt - 1) |->
                IF rix < Len(rois[b])
                THEN [shape |-> Tail(Tail(seg.shape)),
                      data  |-> [ix \in Indices(Tail(Tail(seg.shape))) |->
                                    rois[b][rix + 1].data[<<0>> \o ix]]]
                ELSE Zeros(Tail(Tail(seg.shape)))]],
        roi_class_ids |->
            [b \in 0..(B - 1) |-> [rix \in 0..(n_max_gt - 1) |->
                IF rix < Len(rois[b]) THEN class_id(class_target, b) ELSE 0]]]

convert_seg_to_bounding_box_coordinates(seg, class_target, pid, dim, n_max_gt) ==
    LET B      == seg.shape[1]
        failed == {b \in 0..(B - 1) : SampleRaises(seg, b, dim, n_max_gt) # ""}
    IN IF failed # {}
       THEN [raised |-> SampleRaises(seg, SetMin(failed), dim, n_max_gt),
             b      |-> SetMin(failed)]
       ELSE Returned(Targets(seg, class_target, dim, n_max_gt))

\* the lines printed: one per sample that fails the check, in the order of
\* the loop, up to the sample that raises
Printed(seg, class_target, pid, dim, n_max_gt) ==
    LET B      == seg.shape[1]
        failed == {b \in 0..(B - 1) : SampleRaises(seg, b, dim, n_max_gt) # ""}
        last   == IF failed = {} THEN B - 1 ELSE SetMin(failed) - 1
        RECURSIVE Lines(_)
        Lines(b) ==
            IF b > last THEN <<>>
            ELSE (IF Gate(seg, b) THEN <<>>
                  ELSE << <<"fail: bb kicked out of image by data augmentation",
                            0, pid[b], class_target>> >>)
                 \o Lines(b + 1)
    IN Lines(0)

\* shapes of seg: [B, 1, H, W], [B, 1, H, W, D], and without the channel
\* axis [B, H, W], [B, H, W, D]
SegShapes ==
    {<<2, 1, 2, 2>>, <<1, 1, 3, 3>>, <<1, 1, 2, 2, 2>>, <<2, 2, 2>>, <<1, 2, 2, 2>>}

\* the mask of the box scenario: one filled 3 x 3 square in a 5 x 5 image,
\* rows 1..3, columns 2..4
SquareSeg ==
    [shape |-> <<1, 1, 5, 5>>,
     data  |-> [ix \in Indices(<<1, 1, 5, 5>>) |->
                   IF ix[3] \in 1..3 /\ ix[4] \in 2..4 THEN 1 ELSE 0]]

Segs == UNION {ArraysOver(shp, {0, 1}) : shp \in SegShapes} \cup {SquareSeg}

ClassTargets(B) ==
    {[b \in 0..(B - 1) |-> (b + k) % (MaxClassTarget + 1)] : k \in 0..MaxClassTarget}

Pids(B) == [b \in 0..(B - 1) |-> <<"pid", b>>]

InitBB ==
    /\ pc = "call"
    /\ fn = "convert_seg_to_bounding_box_coordinates"
    /\ \E seg \in Segs :
          args \in {[seg |-> seg, class_target |-> ct, pid |-> Pids(seg.shape[1]),
                     dim |-> dim, n_max_gt |-> n] :
                       ct \in ClassTargets(seg.shape[1]), dim \in {2, 3},
                       n \in 1..MaxGt}
    /\ env = <<>>
    /\ stdout = <<>>
    /\ heap = <<>>
    /\ ret = NoValue

BoundingBoxes ==
    /\ pc = "call"
    /\ fn = "convert_seg_to_bounding_box_coordinates"
    /\ ret' = convert_seg_to_bounding_box_coordinates(
                  args.seg, args.class_target, args.pid, args.dim, args.n_max_gt)
    /\ stdout' = Printed(args.seg, args.class_target, args.pid, args.dim, args.n_max_gt)
    /\ pc' = "return"
    /\ UNCHANGED <<fn, args, env, heap>>

NextBB == BoundingBoxes

SpecBB == InitBB /\ [][NextBB]_vars

BBReturned == pc = "return" /\ fn = "convert_seg_to_bounding_box_coordinates"

\* the connected components of sample b, in label order
ComponentsOf(b) ==
    LET sample == Sample(args.seg, b)
    IN Components({ix \in DOMAIN sample.data : sample.data[ix] # 0})

\* the box of a component c of a mask whose index tuples carry `lead`
\* axes before the spatial ones: row, col, z are the spatial axes in order
ExpectedBox(c, dim, lead) ==
    LET rows == {ix[lead + 1] : ix \in c}
        cols == {ix[lead + 2] : ix \in c}
    IN <<SetMin(cols) - 1, SetMin(rows) - 1, SetMax(cols) + 1, SetMax(rows) + 1>>
       \o (IF dim = 3
           THEN LET zs == {ix[lead + 3] : ix \in c}
                IN <<SetMin(zs) - 1, SetMax(zs) + 1>>
           ELSE <<>>)

Retained(b) == Min(Len(ComponentsOf(b)), args.n_max_gt)

(* C5: for a batch of masks of shape [B, *spatial] the extractor writes    *)
(* for each retained component the box [min_col-1, min_row-1, max_col+1,   *)
(* max_row+1], expanded by 1 and not clamped, and with dim == 3 appends    *)
(* [min_z-1, max_z+1].                                                     *)

C5_BoxOfBatchSpatialMask ==
    (BBReturned /\ Len(args.seg.shape) = 1 + args.dim) =>
        /\ ret.raised = ""
        /\ \A b \in 0..(args.seg.shape[1] - 1) :
              \A r \in 0..(Retained(b) - 1) :
                  ret.value.bb_target[b][r]
                      = ExpectedBox(ComponentsOf(b)[r + 1], args.dim, 0)

(* C5 as amended: the same for a batch of shape [B, 1, *spatial], a        *)
(* singleton channel axis before at least dim spatial axes.                *)

ChannelLayout ==
    /\ Len(args.seg.shape) >= 2 + args.dim
    /\ args.seg.shape[2] = 1

C5_BoxOfBatchChannelSpatialMask ==
    (BBReturned /\ ChannelLayout) =>
        /\ ret.raised = ""
        /\ \A b \in 0..(args.seg.shape[1] - 1) :
              \A r \in 0..(Retained(b) - 1) :
                  ret.value.bb_target[b][r]
                      = ExpectedBox(ComponentsOf(b)[r + 1], args.dim, 1)

\* a component that touches row 0 and column 0: its low bounds are -1
C5_Witness ==
    /\ BBReturned /\ ChannelLayout
    /\ args.seg.shape = <<1, 1, 3, 3>>
    /\ args.dim = 2
    /\ ret.raised = ""
    /\ ret.value.bb_target[0][0] = <<-1, -1, 3, 2>>

\* the 3 x 3 square of the box scenario, rows 1..3 and columns 2..4
SquareScenarioBox ==
    (BBReturned /\ args.seg = SquareSeg /\ args.dim = 2) =>
        ret.value.bb_target[0][0] = <<1, 0, 5, 4>>

(* C6: for every sample b with n components exactly the first              *)
(* min(n, n_max_gt) rows of bb_target[b], roi_masks[b], roi_class_ids[b]   *)
(* are filled, row r with the box, the binary mask and the class id        *)
(* class_target[b] + 1 of the component labelled r + 1; the components     *)
(* beyond n_max_gt are dropped and the other rows stay all-zero.           *)

C6_RowsHoldFirstComponents ==
    (BBReturned /\ ret.raised = "") =>
        \A b \in 0..(args.seg.shape[1] - 1) :
            /\ DOMAIN ret.value.bb_target[b] = 0..(args.n_max_gt - 1)
            /\ \A r \in 0..(args.n_max_gt - 1) :
                  IF r < Retained(b)
                  THEN /\ ret.value.bb_target[b][r]
                             = ExpectedBox(ComponentsOf(b)[r + 1], args.dim, 1)
                       /\ \A ix \in DOMAIN ret.value.roi_masks[b][r].data :
                             ret.value.roi_masks[b][r].data[ix]
                                 = (IF <<0>> \o ix \in ComponentsOf(b)[r + 1]
                                    THEN 1 ELSE 0)
                       /\ ret.value.roi_class_ids[b][r] = args.class_target[b] + 1
                  ELSE /\ \A k \in DOMAIN ret.value.bb_target[b][r] :
                             ret.value.bb_target[b][r][k] = 0
                       /\ \A ix \in DOMAIN ret.value.roi_masks[b][r].data :
                             ret.value.roi_masks[b][r].data[ix] = 0
                       /\ ret.value.roi_class_ids[b][r] = 0

\* a sample with three components and n_max_gt = 2: the third is dropped
C6_Witness ==
    /\ BBReturned /\ ret.raised = ""
    /\ args.seg.shape = <<1, 1, 3, 3>>
    /\ args.n_max_gt = 2
    /\ Len(ComponentsOf(0)) = 3
    /\ args.class_target[0] = 1
    /\ ret.value.roi_class_ids[0][1] = 2
    /\ ret.value.roi_masks[0][1].data[FirstInScan(ComponentsOf(0)[2])[2],
                                     FirstInScan(ComponentsOf(0)[2])[3]] = 1

(* C7: when no voxel of the whole batch is nonzero the call raises         *)
(* nothing, prints one diagnostic per sample naming pid[b] and returns     *)
(* all-zero arrays; the check is over the whole batch, so an empty sample  *)
(* in a batch with a nonzero voxel elsewhere passes it (no diagnostic),    *)
(* raises nothing itself and its rows are all-zero.                        *)

BatchEmpty == \A ix \in DOMAIN args.seg.data : args.seg.data[ix] = 0
SampleEmpty(b) ==
    \A ix \in DOMAIN args.seg.data : ix[1] = b => args.seg.data[ix] = 0

RowsZero(b) ==
    \A r \in 0..(args.n_max_gt - 1) :
        /\ \A k \in DOMAIN ret.value.bb_target[b][r] :
              ret.value.bb_target[b][r][k] = 0
        /\ \A ix \in DOMAIN ret.value.roi_masks[b][r].data :
              ret.value.roi_masks[b][r].data[ix] = 0
        /\ ret.value.roi_class_ids[b][r] = 0

C7_EmptyBatchSkipped ==
    BBReturned =>
        /\ BatchEmpty =>
              /\ ret.raised = ""
              /\ Len(stdout) = args.seg.shape[1]
              /\ \A b \in 0..(args.seg.shape[1] - 1) :
                    /\ stdout[b + 1][3] = args.pid[b]
                    /\ RowsZero(b)
        /\ ~BatchEmpty =>
              \A b \in 0..(args.seg.shape[1] - 1) :
                  SampleEmpty(b) =>
                      /\ stdout = <<>>
                      /\ ret.raised # "" => ret.b # b
                      /\ ret.raised = "" => RowsZero(b)

\* a batch of two empty samples: two diagnostics, nothing raised
C7_Witness ==
    /\ BBReturned
    /\ args.seg.shape = <<2, 1, 2, 2>>
    /\ BatchEmpty
    /\ ret.raised = ""
    /\ Len(stdout) = 2
    /\ stdout[2][3] = args.pid[1]

\* an empty sample beside a sample with a component: no diagnostic
EmptySampleInNonEmptyBatch ==
    /\ BBReturned
    /\ args.seg.shape = <<2, 1, 2, 2>>
    /\ SampleEmpty(0) /\ ~SampleEmpty(1)
    /\ ret.raised = ""
    /\ stdout = <<>>

-----------------------------------------------------------------------------
(* The crop, pad and interpolation helpers, as far as the shapes decide    *)
(* their outcome.  An image is given by its shape; a crop returns a view   *)
(* of it, given by the slice <<start, stop>> taken of every axis.          *)

\* int(x) of a fixed-point x (unit 1/2): truncation toward zero
int(x) == IF x >= 0 THEN x \div 2 ELSE -((-x) \div 2)

\* the slice a:b of an axis of length n, as Python resolves it
PySlice(a, b, n) ==
    LET norm(x) == IF x < 0 THEN Max(0, x + n) ELSE Min(x, n)
    IN <<norm(a), norm(b)>>

FullSlice(n) == <<0, n>>

\* type(crop_size) not in (tuple, list)
IsScalar(crop_size) == crop_size.kind = "scalar"

\* the assert of the crop functions on a list / tuple crop_size
CropLenOkWrong(crop, n_axes) == Len(crop) <= n_axes
CropLenOk(crop, n_axes) == Len(crop) = n_axes

(* center_crop_3D_image, center_crop_2D_image (lead = 0) and their batched *)
(* forms (lead = 2: batch and channel axes first); n is 3 or 2, the number *)
(* of axes the return statement indexes.                                   *)
CenterCrop(img, crop_size, n, lead) ==
    LET spatial     == SubSeq(img.shape, lead + 1, Len(img.shape))
        \* np.array(img.shape) / 2. in fixed point
        center      == [k \in 1..Len(spatial) |-> ToFloat(spatial[k]) \div 2]
        center_crop == IF IsScalar(crop_size)
                       THEN [k \in 1..Len(spatial) |-> crop_size.v]
                       ELSE crop_size.v
    IN IF ~IsScalar(crop_size) /\ ~CropLenOk(center_crop, Len(img.shape) - lead)
       THEN Raised("AssertionError")
       \* center[k], center_crop[k] for k < n
       ELSE IF Len(center) < n \/ Len(center_crop) < n THEN Raised("IndexError")
       ELSE Returned([slices |->
                [k \in 1..Len(img.shape) |->
                    IF k <= lead \/ k > lead + n THEN FullSlice(img.shape[k])
                    ELSE PySlice(int(center[k - lead] - ToFloat(center_crop[k - lead]) \div 2),
                                 int(center[k - lead] + ToFloat(center_crop[k - lead]) \div 2),
                                 img.shape[k])]])

center_crop_3D_image(img, crop_size) == CenterCrop(img, crop_size, 3, 0)
center_crop_3D_image_batched(img, crop_size) == CenterCrop(img, crop_size, 3, 2)
center_crop_2D_image(img, crop_size) == CenterCrop(img, crop_size, 2, 0)
center_crop_2D_image_batched(img, crop_size) == CenterCrop(img, crop_size, 2, 2)

\* the crop_size list the random crops work with
RandomCropSize(img, crop_size, lead) ==
    IF IsScalar(crop_size)
    THEN [k \in 1..Max(0, Len(img.shape) - lead) |-> crop_size.v]
    ELSE crop_size.v

\* axis k (1..n) of a random crop: what its if / elif / else does
RandomCropAxis(img, crop, lead, k) ==
    IF Len(crop) < k \/ Len(img.shape) < lead + k THEN "IndexError"
    ELSE IF crop[k] < img.shape[lead + k] THEN "randint"
    ELSE IF crop[k] = img.shape[lead + k] THEN "zero"
    ELSE "ValueError"

\* np.random.randint(0, img.shape[..] - crop_size[k]) for the axes that
\* draw, 0 for the others: the lower bounds lb_x, lb_y, lb_z that can arise
LowerBounds(img, crop_size, n, lead) ==
    LET crop == RandomCropSize(img, crop_size, lead)
    IN Product([k \in 1..n |->
           IF RandomCropAxis(img, crop, lead, k) = "randint"
           THEN 0..(img.shape[lead + k] - crop[k] - 1)
           ELSE {0}])

(* random_crop_3D_image, random_crop_2D_image and their batched forms;     *)
(* lbs are the lower bounds drawn.                                         *)
RandomCrop(img, crop_size, n, lead, lbs) ==
    LET crop   == RandomCropSize(img, crop_size, lead)
        failed == {k \in 1..n :
                      RandomCropAxis(img, crop, lead, k) \in {"IndexError", "ValueError"}}
    IN IF ~IsScalar(crop_size) /\ ~CropLenOk(crop, Len(img.shape) - lead)
       THEN Raised("AssertionError")
       ELSE IF failed # {}
       THEN Raised(RandomCropAxis(img, crop, lead, SetMin(failed)))
       ELSE Returned([slices |->
                [k \in 1..Len(img.shape) |->
                    IF k <= lead \/ k > lead + n THEN FullSlice(img.shape[k])
                    ELSE PySlice(lbs[k - lead], lbs[k - lead] + crop[k - lead],
                                 img.shape[k])]])

random_crop_3D_image(img, crop_size, lbs) == RandomCrop(img, crop_size, 3, 0, lbs)
random_crop_3D_image_batched(img, crop_size, lbs) == RandomCrop(img, crop_size, 3, 2, lbs)
random_crop_2D_image(img, crop_size, lbs) == RandomCrop(img, crop_size, 2, 0, lbs)
random_crop_2D_image_batched(img, crop_size, lbs) == RandomCrop(img, crop_size, 2, 2, lbs)

\* np.concatenate((shape, new_shape)).reshape((2, len(shape))): the
\* concatenation must hold 2 * len(shape) numbers
ReshapeOk(shape, new_shape) == Len(shape) + Len(new_shape) = 2 * Len(shape)

\* the result is given by its shape, the fill value and the place at
\* which the image is pasted; pad_value is None or <<v>> for a given v
resize_image_by_padding(image, new_shape, pad_value) ==
    LET shape == image.shape
        grown == [k \in 1..Len(shape) |-> Max(shape[k], new_shape[k])]
        start == [k \in 1..Len(shape) |->
                     ToFloat(grown[k]) \div 2 - ToFloat(shape[k]) \div 2]
    IN IF ~ReshapeOk(shape, new_shape) THEN Raised("ValueError")
       ELSE IF pad_value = None /\ Len(shape) \notin {2, 3} THEN Raised("ValueError")
       ELSE Returned([shape |-> grown,
                      fill  |-> IF pad_value = None THEN "image[0, ...]" ELSE "pad_value",
                      paste |-> IF Len(shape) \in {2, 3}
                                THEN [k \in 1..Len(shape) |->
                                         <<int(start[k]), int(start[k]) + shape[k]>>]
                                ELSE <<>>])

(* scipy.ndimage.map_coordinates, an external backend: the coordinate      *)
(* array must have one row per axis of the input, or it raises             *)
(* RuntimeError("invalid shape for coordinate array"); the output has the  *)
(* shape of one row.                                                       *)
CoordinatesOk(input, coordinates) == coordinates.shape[1] = Len(input.shape)

map_coordinates(input, coordinates) ==
    IF ~CoordinatesOk(input, coordinates) THEN Raised("RuntimeError")
    ELSE Returned([shape |-> Tail(coordinates.shape)])

interpolate_img(img, coords) == map_coordinates(img, coords)

\* the sequences of length 1..n over the values
Lists(n, values) == UNION {[1..k -> values] : k \in 1..n}

ImageShapes == Lists(MaxRank, {2, 3})

CropSizes ==
    {[kind |-> "scalar", v |-> c] : c \in {1, 4}}
    \cup {[kind |-> "seq", v |-> q] : q \in Lists(MaxListLen, {1, 3})}

CenterCropFns == {"center_crop_3D_image", "center_crop_3D_image_batched",
                  "center_crop_2D_image", "center_crop_2D_image_batched"}
RandomCropFns == {"random_crop_3D_image", "random_crop_3D_image_batched",
                  "random_crop_2D_image", "random_crop_2D_image_batched"}

InitDim ==
    /\ pc = "call"
    /\ \/ /\ fn \in CenterCropFns \cup RandomCropFns
          /\ args \in {[img |-> [shape |-> shp], crop_size |-> c] :
                          shp \in ImageShapes, c \in CropSizes}
       \/ /\ fn = "resize_image_by_padding"
          /\ args \in {[image |-> [shape |-> shp], new_shape |-> n, pad_value |-> v] :
                          shp \in ImageShapes, n \in Lists(MaxListLen, {1, 4}),
                          v \in {None, <<0>>}}
       \/ /\ fn = "interpolate_img"
          /\ args \in {[img |-> [shape |-> shp], coords |-> [shape |-> c]] :
                          shp \in Lists(3, {2, 3}), c \in Lists(MaxListLen, {1, 2, 3})}
       \/ /\ fn = "resize_segmentation"
          /\ args \in {[segmentation |-> m, new_shape |-> n, order |-> o] :
                          m \in ArraysOver(<<2>>, {0, 1}) \cup ArraysOver(<<1, 2>>, {1, 2}),
                          n \in Lists(3, {1, 3}), o \in {0, 1}}
    /\ env = <<>>
    /\ stdout = <<>>
    /\ heap = <<>>
    /\ ret = NoValue

\* a call of the function named f that ends in `outcome`
Call(f, outcome) ==
    /\ pc = "call"
    /\ fn = f
    /\ ret' = outcome
    /\ pc' = "return"
    /\ UNCHANGED <<fn, args, stdout, heap>>

CenterCrop3D ==
    Call("center_crop_3D_image", center_crop_3D_image(args.img, args.crop_size))
    /\ UNCHANGED env

CenterCrop3DBatched ==
    Call("center_crop_3D_image_batched",
         center_crop_3D_image_batched(args.img, args.crop_size))
    /\ UNCHANGED env

CenterCrop2D ==
    Call("center_crop_2D_image", center_crop_2D_image(args.img, args.crop_size))
    /\ UNCHANGED env

CenterCrop2DBatched ==
    Call("center_crop_2D_image_batched",
         center_crop_2D_image_batched(args.img, args.crop_size))
    /\ UNCHANGED env

RandomCrop3D ==
    /\ fn = "random_crop_3D_image"
    /\ \E lbs \in LowerBounds(args.img, args.crop_size, 3, 0) :
           /\ Call("random_crop_3D_image",
                   random_crop_3D_image(args.img, args.crop_size, lbs))
           /\ env' = IF ret'.raised = "" THEN lbs ELSE <<>>

RandomCrop3DBatched ==
    /\ fn = "random_crop_3D_image_batched"
    /\ \E lbs \in LowerBounds(args.img, args.crop_size, 3, 2) :
           /\ Call("random_crop_3D_image_batched",
                   random_crop_3D_image_batched(args.img, args.crop_size, lbs))
           /\ env' = IF ret'.raised = "" THEN lbs ELSE <<>>

RandomCrop2D ==
    /\ fn = "random_crop_2D_image"
    /\ \E lbs \in LowerBounds(args.img, args.crop_size, 2, 0) :
           /\ Call("random_crop_2D_image",
                   random_crop_2D_image(args.img, args.crop_size, lbs))
           /\ env' = IF ret'.raised = "" THEN lbs ELSE <<>>

RandomCrop2DBatched ==
    /\ fn = "random_crop_2D_image_batched"
    /\ \E lbs \in LowerBounds(args.img, args.crop_size, 2, 2) :
           /\ Call("random_crop_2D_image_batched",
                   random_crop_2D_image_batched(args.img, args.crop_size, lbs))
           /\ env' = IF ret'.raised = "" THEN lbs ELSE <<>>

ResizeByPadding ==
    Call("resize_image_by_padding",
         resize_image_by_padding(args.image, args.new_shape, args.pad_value))
    /\ UNCHANGED env

InterpolateImg ==
    Call("interpolate_img", interpolate_img(args.img, args.coords))
    /\ UNCHANGED env

ResizeSegmentationDim ==
    /\ fn = "resize_segmentation"
    /\ \E resized \in ResizeBackend(args.segmentation, args.new_shape, args.order) :
           /\ Call("resize_segmentation",
                   resize_segmentation(args.segmentation, args.new_shape,
                                       args.order, resized))
           /\ env' = resized

NextDim ==
    \/ CenterCrop3D \/ CenterCrop3DBatched \/ CenterCrop2D \/ CenterCrop2DBatched
    \/ RandomCrop3D \/ RandomCrop3DBatched \/ RandomCrop2D \/ RandomCrop2DBatched
    \/ ResizeByPadding \/ InterpolateImg \/ ResizeSegmentationDim

SpecDim == InitDim /\ [][NextDim]_vars

(* C10: every dimensionality mismatch ends in an error and returns no      *)
(* array: interpolate_img with a coordinate field whose leading size is    *)
(* not the image rank, resize_segmentation with len(new_shape) not the     *)
(* rank of the segmentation, the center_crop_* and random_crop_* functions *)
(* with a list / tuple crop_size whose length is not the number of spatial *)
(* dimensions, resize_image_by_padding with a new_shape of another rank.   *)

Batched == fn \in {"center_crop_3D_image_batched", "center_crop_2D_image_batched",
                   "random_crop_3D_image_batched", "random_crop_2D_image_batched"}

DimensionalityMismatch ==
    CASE fn = "interpolate_img" ->
            args.coords.shape[1] # Len(args.img.shape)
      [] fn = "resize_segmentation" ->
            Len(args.new_shape) # Len(args.segmentation.shape)
      [] fn = "resize_image_by_padding" ->
            Len(args.new_shape) # Len(args.image.shape)
      [] fn \in CenterCropFns \cup RandomCropFns ->
            /\ args.crop_size.kind = "seq"
            /\ Len(args.crop_size.v)
                  # Len(args.img.shape) - (IF Batched THEN 2 ELSE 0)
      [] OTHER -> FALSE

C10_MismatchRejected ==
    (pc = "return" /\ DimensionalityMismatch) =>
        /\ ret.raised # ""
        /\ "value" \notin DOMAIN ret

\* a 3-axis image and a crop_size list of length 4: the first three
\* entries would index the image, had the assert not fired
C10_Witness ==
    /\ pc = "return"
    /\ fn = "center_crop_3D_image"
    /\ args.img.shape = <<3, 3, 3>>
    /\ args.crop_size = [kind |-> "seq", v |-> <<1, 1, 1, 1>>]
    /\ ret.raised = "AssertionError"

-----------------------------------------------------------------------------
(* uncenter_coords line by line, on arrays held in memory.  The caller     *)
(* holds a float coordinate field at the address args.coords and calls     *)
(* uncenter_coords on it MaxCalls times, keeping every outcome             *)
(* (env.results).  The callee's locals are env.shp, env.coords (an         *)
(* address: the local name coords after line 92) and env.d.                *)

\* number of calls the caller makes on the same field
MaxCalls == 2

\* deepcopy(coords): an array with the same contents at a fresh address
deepcopyWrong(h, ref) == [heap |-> h, ref |-> ref]
deepcopy(h, ref) == [heap |-> Append(h, h[ref]), ref |-> Len(h) + 1]

\* coords[d] += offset: written into the array at address ref
AddInPlace(h, ref, d, offset) ==
    LET old == h[ref].data
    IN [h EXCEPT ![ref].data =
           [ix \in DOMAIN old |-> IF ix[1] = d THEN old[ix] + offset ELSE old[ix]]]

\* the fields the caller holds: zero-centered meshes, scaled or not, and
\* fields with more leading entries than spatial axes
FrameFields ==
    {Multiply(create_zero_centered_coordinate_mesh(s),
              ScaleArray([kind |-> "scalar", v |-> k])).value :
        s \in SpatialShapes, k \in 1..MaxScale}
    \cup {[shape |-> <<2, n>>, data |-> [ix \in Indices(<<2, n>>) |-> ToFloat(ix[2])]] :
             n \in 1..MaxExtent}

NoLocals == [shp |-> <<>>, coords |-> 0, d |-> 0]

InitFrame ==
    /\ pc = "call"
    /\ fn = "uncenter_coords"
    /\ args = [coords |-> 1]
    /\ heap \in {<<a>> : a \in FrameFields}
    /\ env = [results |-> <<>>, locals |-> NoLocals]
    /\ stdout = <<>>
    /\ ret = NoValue

\* shp = coords.shape[1:]; coords = deepcopy(coords)
Enter ==
    /\ pc = "call"
    /\ fn = "uncenter_coords"
    /\ LET copy == deepcopy(heap, args.coords)
       IN /\ heap' = copy.heap
          /\ env' = [env EXCEPT !.locals = [shp    |-> Tail(heap[args.coords].shape),
                                            coords |-> copy.ref,
                                            d      |-> 0]]
    /\ pc' = "loop"
    /\ UNCHANGED <<fn, args, stdout, ret>>

\* one round of the loop: coords[d] += (shp[d] - 1) / 2.
LoopBody ==
    /\ pc = "loop"
    /\ env.locals.d < heap[env.locals.coords].shape[1]
    /\ env.locals.d < Len(env.locals.shp)
    /\ heap' = AddInPlace(heap, env.locals.coords, env.locals.d,
                          HalfOf(ToFloat(env.locals.shp[env.locals.d + 1] - 1)))
    /\ env' = [env EXCEPT !.locals.d = @ + 1]
    /\ UNCHANGED <<pc, fn, args, stdout, ret>>

\* shp[d] with d past the last spatial axis
LoopIndexError ==
    /\ pc = "loop"
    /\ env.locals.d < heap[env.locals.coords].shape[1]
    /\ env.locals.d >= Len(env.locals.shp)
    /\ ret' = Raised("IndexError")
    /\ pc' = "return"
    /\ UNCHANGED <<fn, args, env, stdout, heap>>

\* return coords: the address of the local array
LoopDone ==
    /\ pc = "loop"
    /\ env.locals.d = heap[env.locals.coords].shape[1]
    /\ ret' = Returned(env.locals.coords)
    /\ pc' = "return"
    /\ UNCHANGED <<fn, args, env, stdout, heap>>

\* the caller keeps the outcome and calls again with the same argument
CallAgain ==
    /\ pc = "return"
    /\ fn = "uncenter_coords"
    /\ Len(env.results) + 1 < MaxCalls
    /\ env' = [results |-> Append(env.results, ret), locals |-> NoLocals]
    /\ ret' = NoValue
    /\ pc' = "call"
    /\ UNCHANGED <<fn, args, stdout, heap>>

NextFrame == Enter \/ LoopBody \/ LoopIndexError \/ LoopDone \/ CallAgain

SpecFrame == InitFrame /\ [][NextFrame]_vars

\* the array a finished call returned is what the one-step operator gives
\* for the array the caller holds
LineByLineAgrees ==
    (pc = "return" /\ ret.raised = "") =>
        heap[ret.value] = uncenter_coords(heap[args.coords])

(* C11: uncenter_coords never mutates its argument: no step of any call    *)
(* changes the array at the caller's address (nor the caller's reference), *)
(* the returned field is at an address of its own, distinct from the       *)
(* argument and from every earlier result, and every call on the same      *)
(* input ends the same way, with equal contents in the returned arrays.    *)

FrameReturned == pc = "return" /\ fn = "uncenter_coords" /\ heap # <<>>

C11_ArgumentUntouched ==
    /\ [][/\ args' = args
          /\ heap'[args.coords] = heap[args.coords]]_vars
    /\ [](FrameReturned =>
            /\ ret.raised = "" => ret.value # args.coords
            /\ \A i \in 1..Len(env.results) :
                  /\ env.results[i].raised = ret.raised
                  /\ ret.raised = "" =>
                        /\ env.results[i].value # ret.value
                        /\ heap[env.results[i].value] = heap[ret.value])

\* the (4,3) mesh has been recentered twice: the caller still holds the
\* centred mesh, and both results are the absolute-index mesh
C11_Witness ==
    /\ FrameReturned
    /\ Len(env.results) = 1
    /\ ret.raised = ""
    /\ heap[args.coords] = create_zero_centered_coordinate_mesh(<<4, 3>>)
    /\ heap[ret.value].data[<<0, 3, 2>>] = ToFloat(3)
    /\ heap[env.results[1].value].data[<<0, 3, 2>>] = ToFloat(3)
    /\ heap[args.coords].data[<<0, 3, 2>>] = 3

-----------------------------------------------------------------------------
(* C12: in resize_segmentation with order > 0, each output location        *)
(* receives the original class value whose rounded indicator channel is    *)
(* maximal there; among several maximal channels the first in the          *)
(* ascending enumeration of the distinct values wins, i.e. the smallest    *)
(* such label.  So a location where every rounded indicator is 0 receives  *)
(* the smallest label of the input, and a location where indicators round  *)
(* to 1 receives the smallest label among them (of two, the smaller).      *)
(* env holds what the backend returned for each indicator map.             *)

\* the rounded indicator of the i-th distinct value at location ix
RoundedIndicator(i, ix) == np_round(env[i].data[ix])

\* the positions, in the ascending enumeration, of the maximal channels
MaximalChannels(ix) ==
    LET n == Cardinality(Range(args.segmentation.data))
    IN {i \in 1..n : \A j \in 1..n : RoundedIndicator(i, ix) >= RoundedIndicator(j, ix)}

C12_FirstMaximalLabelWins ==
    (ResizeReturned /\ args.order > 0) =>
        LET labels == SortedSeq(Range(args.segmentation.data))
            n      == Len(labels)
        IN \A ix \in DOMAIN ret.value.data :
              LET ones == {i \in 1..n : RoundedIndicator(i, ix) = 1}
              IN /\ ret.value.data[ix] = labels[SetMin(MaximalChannels(ix))]
                 /\ ret.value.data[ix] = SetMin({labels[i] : i \in MaximalChannels(ix)})
                 /\ (\A i \in 1..n : RoundedIndicator(i, ix) = 0) =>
                       ret.value.data[ix] = SetMin(Range(args.segmentation.data))
                 /\ \A i \in ones : \A j \in ones \ {i} :
                       (ones = {i, j}) =>
                           ret.value.data[ix] = Min(labels[i], labels[j])

\* the map [2, 1] resized to two locations: at the first both indicators
\* came back as 1, at the second both as 1/2 (which rounds to 0); both
\* locations receive label 1
C12_Witness ==
    /\ ResizeReturned
    /\ args.order = 3
    /\ args.segmentation.data = (<<0>> :> 2 @@ <<1>> :> 1)
    /\ args.new_shape = <<2>>
    /\ env[1].data = (<<0>> :> ToFloat(1) @@ <<1>> :> 1)
    /\ env[2].data = (<<0>> :> ToFloat(1) @@ <<1>> :> 1)
    /\ ret.value.data = (<<0>> :> 1 @@ <<1>> :> 1)

=============================================================================
